---- MODULE Spec2Model ----
(***************************************************************************)
(* Valshi (Kalshi whale alerts on Telegram): the ingestion loop, the       *)
(* resilient fetcher, the durable store and the preference handlers of     *)
(* src/app.py as one state machine.                                        *)
(*                                                                         *)
(* Units: timestamps are epoch milliseconds counted from a small origin    *)
(* (Now0), money is held in cents (notional_usd * 100) so that all         *)
(* arithmetic stays in the integers.                                       *)
(***************************************************************************)
EXTENDS Integers, Sequences, FiniteSets, TLC

VARIABLES
  hosts,             \* KalshiHTTP.hosts
  host,              \* KalshiHTTP.host (None until pinned)
  min_ts_supported,  \* KalshiHTTP.min_ts_supported: None / TRUE / FALSE
  subs,              \* table subs: user_id -> [alerts_on, thresh_usd, topic]
  prints,            \* table prints: a set of rows
  stats,             \* table stats: ticker -> last_trade_ts_ms
  meta,              \* table meta, key last_ts_ms: None or the stored value
  pc,                \* where ingest_loop stands
  last_ts,           \* ingest_loop: last_ts
  trades,            \* ingest_loop: the batch being processed
  idx,               \* ingest_loop: position of `for tr in trades`
  max_seen,          \* ingest_loop: max_seen
  active_subs,       \* ingest_loop: snapshot of the alert-enabled subscribers
  cur,               \* ingest_loop: the trade being dispatched (fields, flags)
  sub_idx,           \* ingest_loop: position of `for ... in active_subs`
  feed,              \* the upstream: the raw trades it can return
  ticks,             \* elapsed poll intervals (the wall clock)
  restarts,          \* process restarts so far
  cmds,              \* chat commands handled so far
  sent,              \* history: deliveries per <<user, trade_id>>
  processed,         \* history: ts_ms of the trades this cycle stored and dispatched
  fetched,           \* history: the last fetch_trades_since call
  lastCall,          \* history: the last resilient_get call
  lastReq,           \* history: the last /markets/trades request
  died,              \* history: why the ingest task ended, if it did
  parsed             \* history: the last parse_ts_to_ms call on a digit string

vars == <<hosts, host, min_ts_supported, subs, prints, stats, meta,
          pc, last_ts, trades, idx, max_seen, active_subs, cur, sub_idx,
          feed, ticks, restarts, cmds, sent, processed, fetched,
          lastCall, lastReq, died, parsed>>

----------------------------------------------------------------------------
(* Bounds of the model *)

MaxBatch == 2
MaxCycles == 1
MaxRestarts == 1
MaxCmds == 2

(* Program constants *)

POLL_INTERVAL == 10
DEFAULT_THRESH == 5000
MIN_THRESH == 500
LOOKBACK_MIN == 10
SILENT_HOURS == 2
WINDOW_HOURS == 24
ACCUM_MIN == 10
ACCUM_COUNT == 3
SIZE_FACTOR == 5
ROW_CAP == 5000

(* The wall clock at construction, in ms: 27 h 46 min 40 s after the origin. *)
Now0 == 100000 * 1000

None == "None"

Users == {1, 2}

PRIMARY == "PRIMARY"
FALLBACK == "FALLBACK"

----------------------------------------------------------------------------
(* Small helpers *)

Max(S) == CHOOSE x \in S : \A y \in S : y <= x

Range(s) == {s[i] : i \in 1..Len(s)}

RECURSIVE SeqsUpTo(_, _)
SeqsUpTo(S, n) ==
  IF n = 0 THEN {<<>>}
  ELSE LET shorter == SeqsUpTo(S, n - 1)
       IN shorter \cup {Append(s, x) : s \in {t \in shorter : Len(t) = n - 1}, x \in S}

(* time.time() * 1000: the clock advances by one poll interval per sleep. *)
now_ms == Now0 + ticks * (POLL_INTERVAL * 1000)

----------------------------------------------------------------------------
(* KalshiHTTP *)

AllHosts == {PRIMARY, FALLBACK}

(* What one host does with one request: an HTTP status, or the httpx
   exception the request ends in.  ConnectTimeout stands for the httpx
   exceptions that are none of ConnectError, ReadTimeout, NetworkError. *)
Answers == {"200", "400", "404", "500", "ConnectError", "ConnectTimeout"}

(* the same, with the other two exceptions resilient_get names and a second
   5xx status *)
HTTPAnswers == Answers \cup {"503", "ReadTimeout", "NetworkError"}

HostLists == {<<PRIMARY, FALLBACK>>, <<PRIMARY>>}

(* r.status_code >= 400 *)
IsErrorStatus(a) == a \in {"400", "404", "500", "503"}

(* r.status_code >= 500 *)
IsServerError(a) == a \in {"500", "503"}

(* except (httpx.ConnectError, httpx.ReadTimeout, httpx.NetworkError) *)
IsCaughtNetworkError(a) == a \in {"ConnectError", "ReadTimeout", "NetworkError"}

RECURSIVE pick_from(_, _, _)
pick_from(hs, k, probe) ==
  IF k > Len(hs) THEN FALLBACK
  ELSE IF probe[hs[k]] = "200" THEN hs[k]
  ELSE pick_from(hs, k + 1, probe)

(* pick_host that pins the head of the list without looking at the probes *)
pick_host_head(hs, probe) == hs[1]

(* pick_host: the first host whose probe answers 200, else FALLBACK *)
pick_host(hs, probe) == pick_from(hs, 1, probe)

(* order = [self.host] + [h for h in self.hosts if h != self.host] *)
host_order(pinned, hs) == <<pinned>> \o SelectSeq(hs, LAMBDA h : h # pinned)

(* self.host after host h answered without error while `pinned` was pinned *)
pin_after(h, pinned) == h

RECURSIVE try_hosts(_, _, _, _, _, _)
try_hosts(order, k, pinned, resp, last_err, tried) ==
  IF k > Len(order)
  THEN [ok |-> FALSE, err |-> IF last_err = None THEN "RuntimeError" ELSE last_err,
        host |-> pinned, tried |-> tried]
  ELSE LET h == order[k]
           a == resp[h]
           t == Append(tried, h)
       IN IF IsServerError(a) THEN try_hosts(order, k + 1, pinned, resp, "RuntimeError", t)
          ELSE IF a = "200"
               THEN [ok |-> TRUE, err |-> None, host |-> pin_after(h, pinned), tried |-> t]
          ELSE IF IsCaughtNetworkError(a) THEN try_hosts(order, k + 1, pinned, resp, a, t)
          ELSE [ok |-> FALSE, err |-> a, host |-> pinned, tried |-> t]

(* resilient_get: h0 is self.host at the call, probe and resp what each host
   answers to the probe of pick_host and to the request itself.  The result
   says whether a body came back, the error raised otherwise, self.host
   afterwards and the hosts the request was sent to. *)
resilient_get(h0, hs, probe, resp) ==
  LET pinned == IF h0 = None THEN pick_host(hs, probe) ELSE h0
  IN try_hosts(host_order(pinned, hs), 1, pinned, resp, None, <<>>)

NoCall == [pinned |-> None, next |-> None, first |-> None, second |-> None,
           ok |-> FALSE, err |-> None, tried |-> <<>>, picked |-> FALSE,
           probe |-> <<>>]

(* What the last call met: the host pinned when its loop began and the host
   after it in `order` (None if there is none), what each of the two answers
   to this request, how the call ended, the hosts the request was sent to,
   whether the call began with pick_host, and what the hosts answer to its
   probe. *)
call_record(h0, hs, probe, resp) ==
  LET pinned == IF h0 = None THEN pick_host(hs, probe) ELSE h0
      order == host_order(pinned, hs)
      r == resilient_get(h0, hs, probe, resp)
  IN [pinned |-> pinned,
      next |-> IF Len(order) >= 2 THEN order[2] ELSE None,
      first |-> resp[pinned],
      second |-> IF Len(order) >= 2 THEN resp[order[2]] ELSE None,
      ok |-> r.ok, err |-> r.err, tried |-> r.tried, picked |-> h0 = None,
      probe |-> probe]

----------------------------------------------------------------------------
(* Raw trades and the Trade Normalizer *)

BTC == <<"K", "X", "B", "T", "C">>
CPI == <<"K", "X", "C", "P", "I">>

Iso(ms) == [kind |-> "iso", ms |-> ms]
Num(v) == [kind |-> "int", v |-> v]
Text == [kind |-> "text", v |-> 0]
Absent == [kind |-> "absent", v |-> 0]

(* The watermark a first start computes: now - 10 min *)
W0 == Now0 - LOOKBACK_MIN * 60 * 1000

(* Raw trades as the upstream returns them.  id, created_time, ticker, count,
   yes_price and yes_price_dollars are the keys of the response; a count of
   kind "text" is a non-numeric string, a price of kind "absent" a missing
   key.  yes_price_dollars is held in cents. *)
TradeA == [id |-> "a", created_time |-> Iso(W0 + 1000), ticker |-> BTC,
           count |-> Num(10000), yes_price |-> Num(60), yes_price_dollars |-> Absent]
TradeB == [id |-> "b", created_time |-> Iso(W0 + 2000), ticker |-> CPI,
           count |-> Num(2000), yes_price |-> Num(50), yes_price_dollars |-> Absent]
(* no price at all: notional 0 *)
TradeC == [id |-> "c", created_time |-> Iso(W0 + 3000), ticker |-> BTC,
           count |-> Num(100), yes_price |-> Absent, yes_price_dollars |-> Absent]
(* a count that is not a number *)
TradeD == [id |-> "d", created_time |-> Iso(W0 + 1500), ticker |-> CPI,
           count |-> Text, yes_price |-> Num(40), yes_price_dollars |-> Absent]
(* the id of TradeA again, with other contents *)
TradeA2 == [id |-> "a", created_time |-> Iso(W0 + 2500), ticker |-> BTC,
            count |-> Num(1000), yes_price |-> Absent, yes_price_dollars |-> Num(70)]

(* a created_time that is neither digits nor ISO-8601 *)
BadTime == [kind |-> "bad", ms |-> 0]

(* a trade with such a created_time, of notional $50 *)
TradeE == [id |-> "e", created_time |-> BadTime, ticker |-> BTC,
           count |-> Num(100), yes_price |-> Num(50), yes_price_dollars |-> Absent]

FED == <<"K", "X", "F", "E", "D">>

(* the instant of the first trade of the detector feeds *)
T0 == W0 + 1000

(* a trade of instrument tk at instant ms, of `size` contracts at 60 cents *)
Trade(i, tk, ms, size) ==
  [id |-> i, created_time |-> Iso(ms), ticker |-> tk,
   count |-> Num(size), yes_price |-> Num(60), yes_price_dollars |-> Absent]

(* one instrument, trades 2 h less 1 ms and 2 h after the first *)
FeedSilent == {Trade("s0", FED, T0, 10),
               Trade("s1", FED, T0 + 7199999, 10),
               Trade("s2", FED, T0 + 7200000, 10)}

(* one instrument, trades of $6000: 5 min, 10 min and 10 min 1 s after the first *)
FeedAccum == {Trade("x1", BTC, T0, 10000),
              Trade("x2", BTC, T0 + 300000, 10000),
              Trade("x3", BTC, T0 + 600000, 10000),
              Trade("x4", BTC, T0 + 601000, 10000)}

(* one instrument, sizes 10, 49 and 50 *)
FeedSize == {Trade("z10", CPI, T0, 10),
             Trade("z49", CPI, T0 + 1000, 49),
             Trade("z50", CPI, T0 + 2000, 50)}

(* a valid trade next to one with a malformed timestamp *)
FeedBadTs == {TradeA, TradeE}

(* the upstream of the ingestion specification, and of the whole program *)
Feed1 == {TradeA, TradeC, TradeD, TradeA2}
FeedChat == {TradeA, TradeB}

TradeIds == {"a", "b", "c", "d", "e", "s0", "s1", "s2", "x1", "x2", "x3", "x4",
             "z10", "z49", "z50"}

(* parse_ts_to_ms: an ISO-8601 string gives its instant; None and an
   unparseable string give the wall clock; a digit string goes through
   parse_ts_digits below *)
parse_ts_to_ms(ct) == IF ct.kind = "iso" THEN ct.ms ELSE now_ms

(* int(s) of a digit string is unbounded: [hi, lo] stands for
   hi * 10^9 + lo with 0 <= lo < 10^9 *)
Giga == 1000 * 1000 * 1000

Big(hi, lo) == [hi |-> hi, lo |-> lo]

big_gt(a, b) == a.hi > b.hi \/ (a.hi = b.hi /\ a.lo > b.lo)

big_lt(a, b) == big_gt(b, a)

(* v * 1000: the three leading digits of lo carry into hi *)
big_times_1000(v) ==
  Big(v.hi * 1000 + v.lo \div (Giga \div 1000), (v.lo % (Giga \div 1000)) * 1000)

(* the literal 10_000_000_000 of line 180 *)
SecondsLimit == Big(10, 0)

(* parse_ts_to_ms on a digit string, lines 178-180:
   v if v > 10_000_000_000 else v * 1000 *)
parse_ts_digits(v) == IF big_gt(v, SecondsLimit) THEN v ELSE big_times_1000(v)

(* the digit strings tried: around every multiple of 10^9 up to MaxHi * 10^9 *)
MaxHi == 25

DigitInputs == {Big(h, l) : h \in 0..MaxHi, l \in {0, 1, Giga \div 2, Giga - 1}}

NoParse == [called |-> FALSE, arg |-> Big(0, 0), result |-> Big(0, 0)]

(* int(tr.get("count") ...) raises ValueError on a non-numeric string, in
   trade_core_fields (line 304) before trade_notional_usd (line 283) *)
normalize_raises(tr) == tr.count.kind = "text"

(* trade_notional_usd, in cents: count * dollars if yes_price_dollars is
   there, else count * (cents / 100) if yes_price is, else 0 *)
trade_notional_usd(tr) ==
  IF tr.yes_price_dollars.kind = "int" THEN tr.count.v * tr.yes_price_dollars.v
  ELSE IF tr.yes_price.kind = "int" THEN tr.count.v * tr.yes_price.v
  ELSE 0

(* trade_core_fields *)
trade_core_fields(tr) ==
  [trade_id |-> tr.id,
   ts_ms |-> parse_ts_to_ms(tr.created_time),
   ticker |-> tr.ticker,
   count |-> tr.count.v,
   yes_cents |-> tr.yes_price.v]

----------------------------------------------------------------------------
(* Topics *)

HasSub(t, k) ==
  \E i \in 1..(Len(t) - Len(k) + 1) : SubSeq(t, i, i + Len(k) - 1) = k

HasAny(t, ks) == \E k \in ks : HasSub(t, k)

categorize_ticker(t) ==
  IF HasAny(t, {<<"B", "T", "C">>, <<"C", "R", "Y", "P", "T", "O">>}) THEN "crypto"
  ELSE IF HasAny(t, {<<"C", "P", "I">>, <<"F", "E", "D">>, <<"R", "A", "T", "E">>,
                     <<"U", "N", "E", "M", "P">>, <<"G", "D", "P">>, <<"P", "C", "E">>})
       THEN "macro"
  ELSE IF HasAny(t, {<<"N", "F", "L">>, <<"N", "B", "A">>, <<"M", "L", "B">>,
                     <<"N", "H", "L">>, <<"E", "P", "L">>})
       THEN "sports"
  ELSE "other"

topic_match(user_topic, tk) == user_topic = "all" \/ categorize_ticker(tk) = user_topic

----------------------------------------------------------------------------
(* Durable Store *)

(* prints.trade_id is the PRIMARY KEY: an INSERT of a present trade_id fails
   with IntegrityError *)
insert_conflicts(rows, row) == \E r \in rows : r.trade_id = row.trade_id

(* store_print that writes nothing *)
store_print_nothing(rows, row) == rows

(* store_print as INSERT OR REPLACE: the new row takes the place of the old *)
store_print_replace(rows, row) ==
  {r \in rows : r.trade_id # row.trade_id} \cup {row}

(* store_print: INSERT, and pass on IntegrityError *)
store_print(rows, row) == IF insert_conflicts(rows, row) THEN rows ELSE rows \cup {row}

(* last_trade_ts_for_ticker *)
last_trade_ts_for_ticker(st, ticker) == IF ticker \in DOMAIN st THEN st[ticker] ELSE 0

(* update_last_trade_ts: upsert, the new value replaces the old *)
update_last_trade_ts(st, ticker, ts_ms) ==
  [t \in (DOMAIN st) \cup {ticker} |-> IF t = ticker THEN ts_ms ELSE st[t]]

(* ORDER BY ts_ms DESC LIMIT cap *)
most_recent(rows, cap) ==
  IF Cardinality(rows) <= cap THEN rows
  ELSE CHOOSE S \in SUBSET rows :
         /\ Cardinality(S) = cap
         /\ \A r \in S, q \in rows \ S : q.ts_ms <= r.ts_ms

(* ticker_recent_counts_24h: the rows whose count enters the median *)
ticker_recent_counts_24h(rows, ticker) ==
  most_recent({r \in rows : r.ticker = ticker
                            /\ r.ts_ms >= now_ms - WINDOW_HOURS * 3600 * 1000}, ROW_CAP)

RECURSIVE sorted_counts(_)
sorted_counts(rows) ==
  IF rows = {} THEN <<>>
  ELSE LET r == CHOOSE x \in rows : \A y \in rows : x.count <= y.count
       IN <<r.count>> \o sorted_counts(rows \ {r})

(* the lower of the two middle values for an even length *)
median2_lower(rows) ==
  LET a == sorted_counts(rows)
      n == Len(a)
  IN IF n = 0 THEN 0 ELSE 2 * a[(n + 1) \div 2]

(* median, doubled: 2 * a[mid] for an odd length, a[mid-1] + a[mid] for an
   even one, 0 for the empty list *)
median2(rows) ==
  LET a == sorted_counts(rows)
      n == Len(a)
      mid == n \div 2
  IN IF n = 0 THEN 0
     ELSE IF n % 2 = 1 THEN 2 * a[mid + 1]
     ELSE a[mid] + a[mid + 1]

(* the count over ts_ms > since10 *)
high_value_count_after(rows, ticker, since10) ==
  Cardinality({r \in rows : r.ticker = ticker /\ r.ts_ms > since10
                            /\ r.notional_usd >= DEFAULT_THRESH * 100})

(* SELECT COUNT of prints WHERE ticker=? AND ts_ms>=? AND notional_usd>=? *)
high_value_count(rows, ticker, since10) ==
  Cardinality({r \in rows : r.ticker = ticker /\ r.ts_ms >= since10
                            /\ r.notional_usd >= DEFAULT_THRESH * 100})

(* load_subscribers and the filter on == 1, in user_id order *)
RECURSIVE subs_in_order(_, _)
subs_in_order(tbl, ids) ==
  IF ids = {} THEN <<>>
  ELSE LET u == CHOOSE x \in ids : \A y \in ids : x <= y
       IN <<[uid |-> u, thr |-> tbl[u].thresh_usd, top |-> tbl[u].topic]>>
          \o subs_in_order(tbl, ids \ {u})

(* the snapshot without the filter on == 1 *)
load_all_subs(tbl) == subs_in_order(tbl, DOMAIN tbl)

load_active_subs(tbl) == subs_in_order(tbl, {u \in DOMAIN tbl : tbl[u].alerts_on = 1})

NoMeta == [has |-> FALSE, value |-> 0]

(* db_set(db, "last_ts_ms", str(v)) *)
db_set(v) == [has |-> TRUE, value |-> v]

(* ingest_loop starting from now - 10 min whatever is stored *)
start_watermark_fresh(m) == now_ms - LOOKBACK_MIN * 60 * 1000

(* the watermark ingest_loop starts from: the stored one, else now - 10 min *)
start_watermark(m) == IF m.has THEN m.value ELSE now_ms - LOOKBACK_MIN * 60 * 1000

----------------------------------------------------------------------------
(* fetch_trades_since *)

(* the probe's verdict on min_ts_supported; "raise" re-raises the error *)
probe_verdict(r) ==
  IF r.ok THEN "True"
  ELSE IF r.err = "400" THEN "False"
  ELSE IF r.err = "404" THEN "raise"
  ELSE "False"

(* whether the trades request carries min_ts *)
trades_params(supported) == supported = "True"

(* no downgrade on a 400 *)
downgrade_never(supported, err) == supported

(* min_ts_supported after the trades request failed with error err *)
downgrade(supported, err) ==
  IF err = "400" /\ supported = "True" THEN "False" ELSE supported

(* fetch_trades_since called with now - 10 min instead of last_ts *)
fetch_arg_lookback(ts) == now_ms - LOOKBACK_MIN * 60 * 1000

(* the minimum timestamp fetch_trades_since is called with *)
fetch_arg(ts) == ts

(* What the upstream may answer: any sequence of its trades, newest or not,
   repeated or not; with min_ts only trades at or after it. *)
Batches(filtered, min_ts) ==
  SeqsUpTo({tr \in feed : ~filtered \/ tr.created_time.kind # "iso"
                          \/ tr.created_time.ms >= min_ts}, MaxBatch)

ProbeChoices == IF host = None THEN [Range(hosts) -> {"200", "500"}]
                ELSE {[h \in Range(hosts) |-> "200"]}

(* KALSHI.get now: every way the call can end, over what the hosts answer *)
KalshiGet ==
  {resilient_get(host, hosts, probe, resp) :
     probe \in ProbeChoices, resp \in [AllHosts -> Answers]}

NoTrade == [trade_id |-> None, ts_ms |-> 0, ticker |-> <<>>, count |-> 0,
            yes_cents |-> 0, notional_usd |-> 0, flags |-> <<>>]
NoFetch == [arg |-> 0, outcome |-> "none"]
NoReq == [kind |-> "none", filtered |-> FALSE, err |-> None]

(* the fetch returned `batch`: lines 393-400 *)
FetchReturns(batch) ==
  IF batch = <<>>
  THEN /\ pc' = "sleep"
       /\ fetched' = [arg |-> fetch_arg(last_ts), outcome |-> "empty"]
       /\ UNCHANGED <<trades, idx, max_seen, active_subs, processed>>
  ELSE /\ pc' = "trade"
       /\ fetched' = [arg |-> fetch_arg(last_ts), outcome |-> "batch"]
       /\ trades' = batch
       /\ idx' = 1
       /\ max_seen' = last_ts
       /\ active_subs' = load_active_subs(subs)
       /\ processed' = {}

(* the fetch raised: lines 388-391 *)
FetchFails ==
  /\ pc' = "sleep"
  /\ fetched' = [arg |-> fetch_arg(last_ts), outcome |-> "failed"]
  /\ UNCHANGED <<trades, idx, max_seen, active_subs, processed>>

----------------------------------------------------------------------------
(* The state after construction: nothing pinned, no trade stored, no
   watermark; hs is the host list, F the upstream's trades, S the table subs *)

InitWith(hs, F, S) ==
  /\ hosts = hs
  /\ host = None
  /\ min_ts_supported = None
  /\ subs = S
  /\ prints = {}
  /\ stats = [t \in {} |-> 0]
  /\ meta = NoMeta
  /\ pc = "start"
  /\ last_ts = 0
  /\ trades = <<>>
  /\ idx = 1
  /\ max_seen = 0
  /\ active_subs = <<>>
  /\ cur = NoTrade
  /\ sub_idx = 1
  /\ feed = F
  /\ ticks = 0
  /\ restarts = 0
  /\ cmds = 0
  /\ sent = [k \in Users \X TradeIds |-> 0]
  /\ processed = {}
  /\ fetched = NoFetch
  /\ lastCall = NoCall
  /\ lastReq = NoReq
  /\ died = "no"
  /\ parsed = NoParse

NoSubs == [u \in {} |-> 0]

Init == InitWith(<<PRIMARY, FALLBACK>>, FeedChat, NoSubs)

dbVars == <<subs, prints, stats, meta>>
httpVars == <<hosts, host, min_ts_supported>>
loopVars == <<pc, last_ts, trades, idx, max_seen, active_subs, cur, sub_idx>>
envVars == <<feed, ticks, restarts, cmds>>
histVars == <<sent, processed, fetched, lastCall, lastReq, died, parsed>>

----------------------------------------------------------------------------
(* ingest_loop *)

(* lines 379-383: read the stored watermark *)
IngestStart ==
  /\ pc = "start"
  /\ last_ts' = start_watermark(meta)
  /\ pc' = "fetch"
  /\ UNCHANGED <<dbVars, httpVars, trades, idx, max_seen, active_subs, cur, sub_idx,
                 envVars, histVars>>

(* fetch_trades_since, lines 252-265: the capability probe *)
Probe ==
  /\ pc = "fetch"
  /\ min_ts_supported = None
  /\ \E r \in KalshiGet :
       LET v == probe_verdict(r)
       IN /\ host' = r.host
          /\ lastReq' = [kind |-> "probe", filtered |-> TRUE, err |-> r.err]
          /\ IF v = "raise"
             THEN /\ FetchFails
                  /\ UNCHANGED min_ts_supported
             ELSE /\ min_ts_supported' = v
                  /\ fetched' = [arg |-> fetch_arg(last_ts), outcome |-> "pending"]
                  /\ UNCHANGED <<pc, trades, idx, max_seen, active_subs, processed>>
  /\ UNCHANGED <<dbVars, hosts, last_ts, cur, sub_idx, envVars,
                 sent, lastCall, died, parsed>>

(* fetch_trades_since, lines 267-277: the trades request *)
FetchMain ==
  /\ pc = "fetch"
  /\ min_ts_supported # None
  /\ \E r \in KalshiGet :
       LET filtered == trades_params(min_ts_supported)
       IN /\ host' = r.host
          /\ lastReq' = [kind |-> "main", filtered |-> filtered, err |-> r.err]
          /\ IF r.ok
             THEN /\ \E batch \in Batches(filtered, fetch_arg(last_ts)) : FetchReturns(batch)
                  /\ UNCHANGED min_ts_supported
             ELSE /\ min_ts_supported' = downgrade(min_ts_supported, r.err)
                  /\ IF r.err = "400" /\ min_ts_supported = "True"
                     THEN /\ pc' = "retry"
                          /\ fetched' = [arg |-> fetch_arg(last_ts), outcome |-> "pending"]
                          /\ UNCHANGED <<trades, idx, max_seen, active_subs, processed>>
                     ELSE FetchFails
  /\ UNCHANGED <<dbVars, hosts, last_ts, cur, sub_idx, envVars,
                 sent, lastCall, died, parsed>>

(* fetch_trades_since, lines 278-280: the retry without min_ts *)
FetchRetry ==
  /\ pc = "retry"
  /\ \E r \in KalshiGet :
          /\ host' = r.host
          /\ lastReq' = [kind |-> "retry", filtered |-> FALSE, err |-> r.err]
          /\ IF r.ok
             THEN \E batch \in Batches(FALSE, fetch_arg(last_ts)) : FetchReturns(batch)
             ELSE FetchFails
  /\ UNCHANGED <<dbVars, hosts, min_ts_supported, last_ts, cur, sub_idx,
                 envVars, sent, lastCall, died, parsed>>

(* the detector with strict comparisons: a gap of more than 2 h, a size of
   more than 5 medians *)
flags_before_store_strict(f, last_tick_ts, rows) ==
  LET med2 == median2(ticker_recent_counts_24h(rows, f.ticker))
  IN (IF last_tick_ts # 0 /\ (f.ts_ms - last_tick_ts) > SILENT_HOURS * 3600 * 1000
      THEN <<"Silent-breaker">> ELSE <<>>)
     \o (IF med2 > 0 /\ 2 * f.count > SIZE_FACTOR * med2
         THEN <<"Unusual size">> ELSE <<>>)

(* Windowed Anomaly Detector, lines 408-418: the tags known before the row is
   stored.  last_tick_ts is read before update_last_trade_ts writes. *)
flags_before_store(f, last_tick_ts, rows) ==
  LET med2 == median2(ticker_recent_counts_24h(rows, f.ticker))
  IN (IF last_tick_ts # 0 /\ (f.ts_ms - last_tick_ts) >= SILENT_HOURS * 3600 * 1000
      THEN <<"Silent-breaker">> ELSE <<>>)
     \o (IF med2 > 0 /\ 2 * f.count >= SIZE_FACTOR * med2
         THEN <<"Unusual size">> ELSE <<>>)

(* lines 422-430: Accumulation is appended after store_print *)
flags_after_store(flags, f, rows) ==
  IF high_value_count(rows, f.ticker, f.ts_ms - ACCUM_MIN * 60 * 1000) >= ACCUM_COUNT
  THEN Append(flags, "Accumulation") ELSE flags

print_row(f, notional, flags) ==
  [trade_id |-> f.trade_id, ts_ms |-> f.ts_ms, ticker |-> f.ticker, count |-> f.count,
   yes_cents |-> f.yes_cents, notional_usd |-> notional, flags |-> flags]

(* no trade dropped *)
skips_trade_never(tr) == FALSE

(* whether the loop drops the trade before the detector: `if notional <= 0` *)
skips_trade(tr) == trade_notional_usd(tr) <= 0

(* lines 402-430: normalize one trade of the batch, tag it, store it *)
ProcessTrade ==
  /\ pc = "trade"
  /\ idx <= Len(trades)
  /\ LET tr == trades[idx]
     IN IF normalize_raises(tr)
        THEN /\ pc' = "dead"
             /\ died' = "normalize"
             /\ UNCHANGED <<prints, stats, idx, cur, sub_idx>>
        ELSE IF skips_trade(tr)
        THEN /\ idx' = idx + 1
             /\ UNCHANGED <<prints, stats, pc, cur, sub_idx, died>>
        ELSE LET f == trade_core_fields(tr)
                 notional == trade_notional_usd(tr)
                 last_tick_ts == last_trade_ts_for_ticker(stats, f.ticker)
                 flags == flags_before_store(f, last_tick_ts, prints)
                 stored == store_print(prints, print_row(f, notional, flags))
             IN /\ stats' = update_last_trade_ts(stats, f.ticker, f.ts_ms)
                /\ prints' = stored
                /\ cur' = print_row(f, notional, flags_after_store(flags, f, stored))
                /\ sub_idx' = 1
                /\ pc' = "notify"
                /\ UNCHANGED <<idx, died>>
  /\ UNCHANGED <<subs, meta, httpVars, last_ts, trades, max_seen, active_subs, envVars,
                 sent, processed, fetched, lastCall, lastReq, parsed>>

(* the threshold alone decides, whatever the topic *)
wants_any_topic(s, t) == t.notional_usd >= s.thr * 100

(* whether the subscriber (uid, thr, top) is sent the trade: line 433 *)
wants(s, t) == t.notional_usd >= s.thr * 100 /\ topic_match(s.top, t.ticker)

(* notify_user: what becomes of the loop when send_message ends in `outcome`;
   only TelegramNetworkError is caught *)
notify_user(outcome) ==
  IF outcome \in {"ok", "TelegramNetworkError"} THEN "continue" ELSE "raise"

SendOutcomes == {"ok", "TelegramNetworkError", "TelegramForbiddenError"}

(* get_market_title: self.host after the lookup.  A title already in
   _titles_cache costs no request; otherwise one KALSHI.get is made and every
   error of it is swallowed.  Which tickers are cached is left open: the
   lookup makes a request or not. *)
TitleLookup ==
  \/ UNCHANGED host
  \/ \E r \in KalshiGet : host' = r.host

(* lines 432-440: one subscriber of the snapshot *)
Notify ==
  /\ pc = "notify"
  /\ sub_idx <= Len(active_subs)
  /\ LET s == active_subs[sub_idx]
     IN IF ~wants(s, cur)
        THEN /\ sub_idx' = sub_idx + 1
             /\ UNCHANGED <<host, pc, sent, died>>
        ELSE /\ TitleLookup
             /\ \E outcome \in SendOutcomes :
                  /\ sent' = IF outcome = "ok"
                             THEN [sent EXCEPT ![<<s.uid, cur.trade_id>>] = @ + 1]
                             ELSE sent
                  /\ IF notify_user(outcome) = "continue"
                     THEN /\ sub_idx' = sub_idx + 1
                          /\ UNCHANGED <<pc, died>>
                     ELSE /\ pc' = "dead"
                          /\ died' = "send"
                          /\ UNCHANGED sub_idx
  /\ UNCHANGED <<dbVars, hosts, min_ts_supported, last_ts, trades, idx, max_seen,
                 active_subs, cur, envVars, processed, fetched, lastCall, lastReq,
                 parsed>>

(* lines 442-443: the trade went through; it counts for the watermark *)
TradeDone ==
  /\ pc = "notify"
  /\ sub_idx > Len(active_subs)
  /\ max_seen' = IF cur.ts_ms > max_seen THEN cur.ts_ms ELSE max_seen
  /\ processed' = processed \cup {cur.ts_ms}
  /\ idx' = idx + 1
  /\ cur' = NoTrade
  /\ sub_idx' = 1
  /\ pc' = "trade"
  /\ UNCHANGED <<dbVars, httpVars, last_ts, trades, active_subs, envVars,
                 sent, fetched, lastCall, lastReq, died, parsed>>

(* line 445: `if max_seen > last_ts` *)
should_advance(ts, m) == m > ts

(* lines 445-448: the batch is through; advance and persist the watermark *)
Advance ==
  /\ pc = "trade"
  /\ idx > Len(trades)
  /\ IF should_advance(last_ts, max_seen)
     THEN /\ last_ts' = max_seen
          /\ meta' = db_set(max_seen)
     ELSE UNCHANGED <<last_ts, meta>>
  /\ pc' = "sleep"
  /\ UNCHANGED <<subs, prints, stats, httpVars, trades, idx, max_seen, active_subs, cur,
                 sub_idx, envVars, histVars>>

(* asyncio.sleep(POLL_INTERVAL), then the next cycle *)
Sleep ==
  /\ pc = "sleep"
  /\ ticks < MaxCycles
  /\ ticks' = ticks + 1
  /\ pc' = "fetch"
  /\ lastReq' = NoReq
  /\ UNCHANGED <<dbVars, httpVars, last_ts, trades, idx, max_seen, active_subs, cur,
                 sub_idx, feed, restarts, cmds, sent, processed, fetched, lastCall, died,
                 parsed>>

(* The process is terminated and started again: the database stays, the
   memory of KALSHI and of ingest_loop is built anew. *)
Restart ==
  /\ restarts < MaxRestarts
  /\ restarts' = restarts + 1
  /\ host' = None
  /\ min_ts_supported' = None
  /\ pc' = "start"
  /\ last_ts' = 0
  /\ trades' = <<>>
  /\ idx' = 1
  /\ max_seen' = 0
  /\ active_subs' = <<>>
  /\ cur' = NoTrade
  /\ sub_idx' = 1
  /\ processed' = {}
  /\ fetched' = NoFetch
  /\ lastCall' = NoCall
  /\ lastReq' = NoReq
  /\ died' = "no"
  /\ UNCHANGED <<dbVars, hosts, feed, ticks, cmds, sent, parsed>>

----------------------------------------------------------------------------
(* The preference handlers: INSERT ... ON CONFLICT(user_id) DO UPDATE SET *)

sub_row(on, thr, top) == [alerts_on |-> on, thresh_usd |-> thr, topic |-> top]

upsert(tbl, u, inserted, updated) ==
  [x \in (DOMAIN tbl) \cup {u} |->
     IF x # u THEN tbl[x] ELSE IF u \in DOMAIN tbl THEN updated ELSE inserted]

ThreshInputs == {MIN_THRESH - 1, MIN_THRESH}
TopicInputs == {"crypto", "macro", "other"}

Handled ==
  /\ cmds < MaxCmds
  /\ cmds' = cmds + 1
  /\ UNCHANGED <<prints, stats, meta, loopVars, feed, ticks, restarts,
                 sent, processed, fetched, lastReq, died, parsed>>

btn_on(u) ==
  /\ Handled
  /\ subs' = upsert(subs, u, sub_row(1, DEFAULT_THRESH, "all"),
                    [subs[u] EXCEPT !.alerts_on = 1])
  /\ UNCHANGED <<httpVars, lastCall>>

btn_off(u) ==
  /\ Handled
  /\ subs' = upsert(subs, u, sub_row(0, DEFAULT_THRESH, "all"),
                    [subs[u] EXCEPT !.alerts_on = 0])
  /\ UNCHANGED <<httpVars, lastCall>>

handle_thresh_input(u, val) ==
  /\ Handled
  /\ subs' = IF val < MIN_THRESH THEN subs
             ELSE upsert(subs, u, sub_row(1, val, "all"),
                         [subs[u] EXCEPT !.thresh_usd = val])
  /\ UNCHANGED <<httpVars, lastCall>>

set_topic_value(u, t) ==
  /\ Handled
  /\ subs' = IF t \notin {"macro", "crypto", "sports", "all"} THEN subs
             ELSE upsert(subs, u, sub_row(1, DEFAULT_THRESH, t),
                         [subs[u] EXCEPT !.topic = t])
  /\ UNCHANGED <<httpVars, lastCall>>

TzInputs == {"Europe/London", "Mars/Phobos"}

(* ZoneInfo(tz_arg) does not raise *)
valid_timezone(tz) == tz = "Europe/London"

(* set_timezone_value: a new user is inserted with alerts_on = 0; tz itself
   only formats the alert's time and is not kept *)
set_timezone_value(u, tz) ==
  /\ Handled
  /\ subs' = IF ~valid_timezone(tz) THEN subs
             ELSE upsert(subs, u, sub_row(0, DEFAULT_THRESH, "all"), subs[u])
  /\ UNCHANGED <<httpVars, lastCall>>

(* /health: one KALSHI.get("/markets") *)
cmd_health ==
  /\ Handled
  /\ \E r \in KalshiGet : host' = r.host
  /\ UNCHANGED <<subs, hosts, min_ts_supported, lastCall>>

----------------------------------------------------------------------------
(* The whole program *)

Next ==
  \/ IngestStart
  \/ Probe
  \/ FetchMain
  \/ FetchRetry
  \/ ProcessTrade
  \/ Notify
  \/ TradeDone
  \/ Advance
  \/ Sleep
  \/ Restart
  \/ \E u \in Users : btn_on(u)
  \/ \E u \in Users : btn_off(u)
  \/ \E u \in Users, val \in ThreshInputs : handle_thresh_input(u, val)
  \/ \E u \in Users, t \in TopicInputs : set_topic_value(u, t)
  \/ \E u \in Users, tz \in TzInputs : set_timezone_value(u, tz)
  \/ cmd_health

Spec == Init /\ [][Next]_vars

----------------------------------------------------------------------------
(* One process lifetime of the loop with the preference handlers: the whole
   program less the restart and /health. *)

NextChat ==
  \/ IngestStart
  \/ Probe
  \/ FetchMain
  \/ FetchRetry
  \/ ProcessTrade
  \/ Notify
  \/ TradeDone
  \/ Advance
  \/ Sleep
  \/ \E u \in Users : btn_on(u)
  \/ \E u \in Users : btn_off(u)
  \/ \E u \in Users, val \in ThreshInputs : handle_thresh_input(u, val)
  \/ \E u \in Users, t \in TopicInputs : set_topic_value(u, t)
  \/ \E u \in Users, tz \in TzInputs : set_timezone_value(u, tz)

SpecChat == Init /\ [][NextChat]_vars

----------------------------------------------------------------------------
(* Ingestion on its own.  The handlers write only the table subs, which the
   loop reads once per cycle; here the table is one of SubsTables from the
   start (the database file outlives the process) and no command arrives. *)

SubsTables == {
  [u \in Users |-> sub_row(1, IF u = 1 THEN MIN_THRESH ELSE DEFAULT_THRESH, "all")],
  [u \in Users |-> sub_row(IF u = 1 THEN 0 ELSE 1, DEFAULT_THRESH,
                            IF u = 1 THEN "all" ELSE "crypto")]
}

InitIngest == \E S \in SubsTables : InitWith(<<PRIMARY, FALLBACK>>, Feed1, S)

NextIngest ==
  \/ IngestStart
  \/ Probe
  \/ FetchMain
  \/ FetchRetry
  \/ ProcessTrade
  \/ Notify
  \/ TradeDone
  \/ Advance
  \/ Sleep
  \/ Restart

SpecIngest == InitIngest /\ [][NextIngest]_vars

----------------------------------------------------------------------------
(* Ingestion again, over the upstreams that exercise the detector and the
   timestamp parser; one subscriber, alerts on, default threshold, topic all. *)

DetectFeeds == {FeedSilent, FeedAccum, FeedSize, FeedBadTs}

DetectSubs == [u \in {1} |-> sub_row(1, DEFAULT_THRESH, "all")]

InitDetect == \E F \in DetectFeeds : InitWith(<<PRIMARY, FALLBACK>>, F, DetectSubs)

SpecDetect == InitDetect /\ [][NextIngest]_vars

----------------------------------------------------------------------------
(* KalshiHTTP on its own: any sequence of get calls, by any caller, against
   hosts that answer anything; lastCall keeps what the last call saw. *)

Get ==
  /\ \E probe \in ProbeChoices, resp \in [AllHosts -> HTTPAnswers] :
       /\ host' = resilient_get(host, hosts, probe, resp).host
       /\ lastCall' = call_record(host, hosts, probe, resp)
  /\ UNCHANGED <<dbVars, hosts, min_ts_supported, loopVars, envVars,
                 sent, processed, fetched, lastReq, died, parsed>>

InitHTTP == \E hs \in HostLists : InitWith(hs, {}, NoSubs)

NextHTTP == Get

SpecHTTP == InitHTTP /\ [][NextHTTP]_vars

(* parse_ts_to_ms alone, on digit strings *)
ParseTs ==
  /\ \E v \in DigitInputs :
       parsed' = [called |-> TRUE, arg |-> v, result |-> parse_ts_digits(v)]
  /\ UNCHANGED <<dbVars, httpVars, loopVars, envVars,
                 sent, processed, fetched, lastCall, lastReq, died>>

InitParse == InitWith(<<PRIMARY, FALLBACK>>, {}, NoSubs)

NextParse == ParseTs

SpecParse == InitParse /\ [][NextParse]_vars

----------------------------------------------------------------------------
(* Properties *)

ts_of(tr) == parse_ts_to_ms(tr.created_time)

(* C1 (SpecIngest): over any sequence of cycles and restarts the persisted
   watermark meta['last_ts_ms'] never decreases, and a step that writes it
   writes the timestamp of a trade that this cycle stored and dispatched. *)
C1_WatermarkMonotone ==
  [][/\ meta.has => (meta'.has /\ meta'.value >= meta.value)
     /\ meta' # meta => meta'.value \in processed]_vars

(* C1 witness: a cycle that began at the watermark of an earlier write and
   wrote a larger one. *)
C1_Witness ==
  /\ pc = "sleep"
  /\ fetched = [arg |-> W0 + 1000, outcome |-> "batch"]
  /\ meta = db_set(W0 + 2500)
  /\ (W0 + 2500) \in processed

(* C2 (SpecIngest): prints holds at most one row per trade_id; rows are only
   added, so storing a present trade_id leaves the first row as it was, and
   the loop does not end on it (it ends in ProcessTrade only when the trade
   cannot be normalized). *)
C2_OneRowPerTradeId ==
  [][/\ prints \subseteq prints'
     /\ \A r, q \in prints' : r.trade_id = q.trade_id => r = q
     /\ (pc = "trade" /\ pc' = "dead") => normalize_raises(trades[idx])]_vars

(* C2 witness: a trade went through store_print while another row with its
   trade_id, of other contents, was in prints: that row is still the one. *)
C2_Witness ==
  /\ pc = "notify"
  /\ \E r \in prints : r.trade_id = cur.trade_id /\ r.ts_ms # cur.ts_ms
  /\ Cardinality({r \in prints : r.trade_id = cur.trade_id}) = 1

(* C3 (SpecIngest), as claimed: with the filter unsupported, a trade of the
   batch whose timestamp is at or below the watermark is dropped: the step
   that takes it writes neither prints nor stats and dispatches nothing. *)
C3_ClientSideFilter ==
  [][(/\ pc = "trade"
      /\ idx <= Len(trades)
      /\ min_ts_supported = "False"
      /\ ts_of(trades[idx]) <= last_ts)
     => (prints' = prints /\ stats' = stats /\ pc' # "notify")]_vars

(* C4 (SpecIngest), as claimed: no subscriber is sent an alert for the same
   trade_id more than once. *)
C4_AtMostOneAlert == \A k \in DOMAIN sent : sent[k] <= 1

(* the failures below the HTTP level: connecting, timing out, the network *)
IsNetworkFailure(a) ==
  a \in {"ConnectError", "ConnectTimeout", "ReadTimeout", "NetworkError"}

(* C5 (SpecHTTP), as claimed: a call whose pinned host answers 5xx or fails
   at the network level, and whose next host answers 200, returns that
   answer and leaves the next host pinned. *)
C5_Failover ==
  (/\ lastCall.next # None
   /\ IsServerError(lastCall.first) \/ IsNetworkFailure(lastCall.first)
   /\ lastCall.second = "200")
  => (lastCall.ok /\ host = lastCall.next)

(* C6 (SpecIngest): within one process, min_ts_supported once "False" stays
   "False"; a trades request that carried min_ts and ended in a 400 leaves it
   "False"; and no trades request made while it is "False" carries min_ts. *)
C6_DowngradeIsPermanent ==
  [][restarts' = restarts =>
       /\ min_ts_supported = "False" => min_ts_supported' = "False"
       /\ (lastReq' # lastReq /\ lastReq'.filtered /\ lastReq'.err = "400")
            => min_ts_supported' = "False"
       /\ (lastReq' # lastReq /\ lastReq'.kind # "none" /\ min_ts_supported = "False")
            => ~lastReq'.filtered]_vars

(* C6 witness: the trades request went out with min_ts after a successful
   probe, came back 400, and the retry without min_ts is next. *)
C6_Witness ==
  /\ pc = "retry"
  /\ lastReq = [kind |-> "main", filtered |-> TRUE, err |-> "400"]
  /\ min_ts_supported = "False"

(* C7 (SpecIngest), as claimed: no failure of send_message ends the
   ingestion loop. *)
C7_DeliveryFailureIsolated == died # "send"

(* C8 (SpecIngest), as claimed: a trade that cannot be normalized does not
   end the ingestion loop. *)
C8_MalformedTradeSkipped == died # "normalize"

FetchLeftNothing == {"failed", "empty"}

(* C9 (SpecIngest): a fetch that raises or returns an empty batch sends the
   loop to sleep with last_ts, the stored watermark, prints and stats as
   they were, and the fetch of the next tick is called with the same
   watermark. *)
C9_FailedFetchKeepsWatermark ==
  [][(/\ restarts' = restarts
      /\ fetched.outcome \in FetchLeftNothing \/ fetched'.outcome \in FetchLeftNothing)
     => /\ last_ts' = last_ts /\ meta' = meta /\ prints' = prints /\ stats' = stats
        /\ fetched.outcome \in FetchLeftNothing => fetched'.arg = fetched.arg
        /\ (pc \in {"fetch", "retry"} /\ fetched'.outcome \in FetchLeftNothing)
             => pc' = "sleep"]_vars

(* C9 witness: the fetch failed, the loop slept, and the next tick's fetch is
   about to be called with the watermark of the failed one. *)
C9_Witness ==
  /\ pc = "fetch"
  /\ ticks = 1
  /\ lastReq.kind = "none"
  /\ fetched.outcome = "failed"
  /\ fetched.arg = last_ts

ZeroNotionalLeftOut ==
  /\ \A r \in prints : r.notional_usd > 0
  /\ pc = "notify" => cur.notional_usd > 0
  /\ \A tr \in feed :
       (\A other \in feed : other.id = tr.id => ~normalize_raises(other) /\ skips_trade(other))
       => \A u \in Users : sent[<<u, tr.id>>] = 0

CycleDone == pc = "sleep" /\ fetched.outcome = "batch"

(* C10, as claimed: a zero-notional trade is neither stored nor alerted on,
   and a completed cycle whose only trade newer than the watermark has zero
   notional leaves the watermark at that trade's timestamp. *)
C10_ZeroNotionalAdvances ==
  /\ ZeroNotionalLeftOut
  /\ CycleDone =>
       \A k \in 1..Len(trades) :
         (/\ skips_trade(trades[k])
          /\ ts_of(trades[k]) > fetched.arg
          /\ \A j \in 1..Len(trades) : j # k => ts_of(trades[j]) <= fetched.arg)
         => (last_ts = ts_of(trades[k]) /\ meta = db_set(ts_of(trades[k])))

(* C10 (SpecIngest), amended: a zero-notional trade is neither stored nor
   alerted on, and its timestamp does not count: after a completed cycle the
   watermark is the largest of the watermark the cycle began with and the
   timestamps of the batch's positive-notional trades. *)
C10_ZeroNotionalDoesNotCount ==
  /\ ZeroNotionalLeftOut
  /\ CycleDone =>
       last_ts = Max({fetched.arg} \cup
                     {ts_of(trades[k]) : k \in {j \in 1..Len(trades) : ~skips_trade(trades[j])}})

(* C10 witness: a cycle whose batch was the zero-notional trade alone, newer
   than the watermark, is over: nothing stored, the watermark where it was. *)
C10_Witness ==
  /\ CycleDone
  /\ trades = <<TradeC>>
  /\ ts_of(TradeC) > fetched.arg
  /\ last_ts = fetched.arg
  /\ prints = {}
  /\ ~meta.has

(* C11 (SpecIngest), as claimed: for every instrument stats.last_trade_ts_ms
   never decreases: the step that processes a trade with timestamp ts leaves
   max(previous value, ts) there. *)
C11_LastTradeTsMonotone ==
  [][\A t \in DOMAIN stats : t \in DOMAIN stats' /\ stats'[t] >= stats[t]]_vars

(* the timestamps of the batch's trades whose created_time parses *)
ValidTimestamps ==
  {trades[k].created_time.ms : k \in {j \in 1..Len(trades) : trades[j].created_time.kind = "iso"}}

(* C12 (SpecDetect), as claimed: after a completed cycle whose batch holds a
   trade with a malformed timestamp next to trades with valid ones (all of
   positive notional, the newest valid one above the watermark the cycle began
   with), the watermark, in memory and persisted, is the maximum of the valid
   timestamps. *)
C12_MalformedTsIgnored ==
  (/\ CycleDone
   /\ \E k \in 1..Len(trades) : trades[k].created_time.kind # "iso"
   /\ \A k \in 1..Len(trades) : ~normalize_raises(trades[k]) /\ ~skips_trade(trades[k])
   /\ ValidTimestamps # {}
   /\ Max(ValidTimestamps \cup {fetched.arg}) > fetched.arg)
  => (/\ last_ts = Max(ValidTimestamps)
      /\ meta = db_set(Max(ValidTimestamps)))

(* the loop is at a subscriber of the snapshot, about to decide on the trade *)
AtDecision == pc = "notify" /\ sub_idx <= Len(active_subs)

(* send_message to user u for the trade at hand can go out in this step *)
CanSendTo(u) ==
  ENABLED (Notify /\ sent' = [sent EXCEPT ![<<u, cur.trade_id>>] = @ + 1])

(* C13 (SpecChat): a trade that reaches the dispatch has positive notional, and
   the subscriber of the snapshot the loop stands at is sent the alert if and
   only if the trade's notional is at least their threshold and their topic
   is 'all' or the category of the trade's ticker; nobody else is sent
   anything in that step. *)
C13_NotifiedIffMatch ==
  AtDecision =>
    LET s == active_subs[sub_idx]
    IN /\ cur.notional_usd > 0
       /\ CanSendTo(s.uid) <=>
            (/\ cur.notional_usd >= s.thr * 100
             /\ s.top = "all" \/ s.top = categorize_ticker(cur.ticker))
       /\ \A u \in Users \ {s.uid} : ~CanSendTo(u)

(* C13 witness: a 'crypto' subscriber with threshold $500 has been sent the
   $6000 trade on the BTC ticker and has been passed over for the $1000 trade
   on the CPI ticker. *)
C13_Witness ==
  /\ pc = "notify"
  /\ active_subs = <<[uid |-> 1, thr |-> MIN_THRESH, top |-> "crypto"]>>
  /\ trades = <<TradeA, TradeB>>
  /\ cur.trade_id = "b"
  /\ sub_idx = 2
  /\ sent[<<1, "a">>] = 1
  /\ sent[<<1, "b">>] = 0

(* the alert-enabled subscribers of table tbl, with threshold and topic *)
EnabledIn(tbl) ==
  {[uid |-> u, thr |-> tbl[u].thresh_usd, top |-> tbl[u].topic] :
     u \in {x \in DOMAIN tbl : tbl[x].alerts_on = 1}}

(* C14 (SpecChat): the step that brings a batch in takes the snapshot, and it is
   the alert-enabled subscribers of the table as it is then, each once; while
   the batch is processed the snapshot stays as it was, whatever a handler
   commits to the table; and every send of the cycle goes to the subscriber
   of the snapshot the loop stands at, on the threshold and topic the
   snapshot holds. *)
C14_SnapshotPerCycle ==
  [][/\ (pc \in {"fetch", "retry"} /\ pc' = "trade")
          => /\ Range(active_subs') = EnabledIn(subs)
             /\ Len(active_subs') = Cardinality(EnabledIn(subs))
     /\ (pc \in {"trade", "notify"} /\ pc' # "start") => active_subs' = active_subs
     /\ subs' # subs => (active_subs' = active_subs /\ sent' = sent /\ pc' = pc)
     /\ sent' # sent
          => /\ AtDecision
             /\ LET s == active_subs[sub_idx]
                IN /\ sent' = [sent EXCEPT ![<<s.uid, cur.trade_id>>] = @ + 1]
                   /\ cur.notional_usd >= s.thr * 100
                   /\ s.top = "all" \/ s.top = categorize_ticker(cur.ticker)]_vars

(* C14 witness: subscriber 1 has turned alerts off while the batch is being
   processed, is still in the snapshot, and the alert for the trade at hand
   can go out to them. *)
C14_Witness ==
  /\ AtDecision
  /\ active_subs[sub_idx].uid = 1
  /\ subs[1].alerts_on = 0
  /\ CanSendTo(1)

(* the trade_ids of the batch's trades that the loop does not drop *)
BatchIds == {trades[k].id : k \in {j \in 1..Len(trades) : ~skips_trade(trades[j])}}

(* C15 (SpecIngest): the step that persists the watermark comes after the
   whole batch: every positive-notional trade of the batch has a row in
   prints then; rows are never removed, so they are there wherever the
   process is terminated afterwards; the loop of a restarted process begins
   at the persisted watermark; and prints never holds two rows of one
   trade_id. *)
C15_PersistAfterBatch ==
  [][/\ meta' # meta
          => /\ pc = "trade" /\ idx > Len(trades)
             /\ \A i \in BatchIds : \E r \in prints' : r.trade_id = i
     /\ \A r \in prints : r \in prints'
     /\ (pc = "start" /\ pc' = "fetch" /\ meta.has) => last_ts' = meta.value
     /\ \A r, q \in prints' : r.trade_id = q.trade_id => r = q]_vars

(* C15 witness: a watermark was persisted and the process was terminated and
   started again; the loop resumed at the persisted watermark and is
   processing a trade whose trade_id is in prints from before, with other
   contents: there is still one row of it. *)
C15_Witness ==
  /\ restarts = 1
  /\ meta.has
  /\ fetched = [arg |-> meta.value, outcome |-> "batch"]
  /\ pc = "notify"
  /\ \E r \in prints : r.trade_id = cur.trade_id /\ r.ts_ms < cur.ts_ms
  /\ Cardinality({r \in prints : r.trade_id = cur.trade_id}) = 1

(* the step takes a trade of the batch through the detector and the store *)
Detects == pc = "trade" /\ pc' = "notify"

Tagged(flags, tag) == \E i \in 1..Len(flags) : flags[i] = tag

(* C16 (SpecDetect): a trade is tagged 'Silent-breaker' if and only if stats
   holds a last_trade_ts_ms for its instrument before the trade's own upsert
   and the trade's timestamp is at least 7200000 ms after it.  (Timestamps
   are positive: a stored value is never 0.) *)
C16_SilentBreaker ==
  [][Detects =>
       (Tagged(cur'.flags, "Silent-breaker")
          <=> /\ cur'.ticker \in DOMAIN stats
              /\ cur'.ts_ms - stats[cur'.ticker] >= 7200000)]_vars

(* C16 witness: the first trade of the instrument is stored untagged, the
   trade 7199999 ms after it is stored untagged, and the trade 7200000 ms
   after it has just been tagged. *)
C16_Witness ==
  /\ pc = "notify"
  /\ cur.trade_id = "s2"
  /\ cur.ts_ms - T0 = 7200000
  /\ Tagged(cur.flags, "Silent-breaker")
  /\ \E r \in prints : r.trade_id = "s0" /\ r.ts_ms = T0 /\ r.flags = <<>>
  /\ \E r \in prints : r.trade_id = "s1" /\ r.ts_ms - T0 = 7199999 /\ r.flags = <<>>

(* the stored rows of the instrument of trade t, of notional at least $5000
   (in cents), with timestamps from 600000 ms before t's up to t's *)
RecentLarge(rows, t) ==
  {r \in rows : /\ r.ticker = t.ticker
                /\ r.notional_usd >= 500000
                /\ r.ts_ms >= t.ts_ms - 600000
                /\ r.ts_ms <= t.ts_ms}

(* C17 (SpecDetect): a newly stored trade of notional at least $5000 that
   finds two stored trades of its instrument of such notional, none later than
   itself and none more than 600000 ms earlier, is tagged 'Accumulation'; a
   trade that finds fewer than two stored trades of its instrument of such
   notional from 600000 ms before it onward is not. *)
C17_Accumulation ==
  [][Detects =>
       /\ (/\ \A r \in prints : r.trade_id # cur'.trade_id
           /\ cur'.notional_usd >= 500000
           /\ Cardinality(RecentLarge(prints, cur')) >= 2)
          => Tagged(cur'.flags, "Accumulation")
       /\ Cardinality({r \in prints : /\ r.ticker = cur'.ticker
                                      /\ r.notional_usd >= 500000
                                      /\ r.ts_ms >= cur'.ts_ms - 600000}) < 2
          => ~Tagged(cur'.flags, "Accumulation")]_vars

(* C17 witness: three trades of $6000 of one instrument were processed in
   timestamp order, the third exactly 600000 ms after the first, and the
   third is tagged. *)
C17_Witness ==
  /\ pc = "notify"
  /\ cur.trade_id = "x3"
  /\ cur.ts_ms - T0 = 600000
  /\ {r.trade_id : r \in prints} = {"x1", "x2", "x3"}
  /\ \E r \in prints : r.trade_id = "x1" /\ r.ts_ms = T0
  /\ Tagged(cur.flags, "Accumulation")

(* the k-th smallest size among rows *)
KthSize(rows, k) ==
  CHOOSE c \in {r.count : r \in rows} :
    /\ Cardinality({r \in rows : r.count < c}) < k
    /\ Cardinality({r \in rows : r.count <= c}) >= k

(* twice the median of the sizes of rows, 0 for no rows *)
TwiceMedianSize(rows) ==
  LET n == Cardinality(rows)
  IN IF n = 0 THEN 0
     ELSE IF n % 2 = 1 THEN 2 * KthSize(rows, (n + 1) \div 2)
     ELSE KthSize(rows, n \div 2) + KthSize(rows, n \div 2 + 1)

(* the stored trades of instrument tk of the trailing 24 hours *)
Last24h(tk) == {r \in prints : r.ticker = tk /\ r.ts_ms >= now_ms - 86400000}

(* C18 (SpecDetect): a trade is tagged 'Unusual size' if and only if the
   median of the sizes of the stored trades of its instrument of the trailing
   24 hours (never more than 5000 rows here) is positive and the trade's size
   is at least 5 times that median. *)
C18_UnusualSize ==
  [][Detects =>
       LET m2 == TwiceMedianSize(Last24h(cur'.ticker))
       IN /\ Cardinality(Last24h(cur'.ticker)) <= 5000
          /\ Tagged(cur'.flags, "Unusual size") <=> (m2 > 0 /\ 2 * cur'.count >= 5 * m2)]_vars

(* C18 witness: the instrument's history is one trade of size 10 (median
   10), and the trade of size 50 has just been tagged. *)
C18_Witness ==
  /\ pc = "notify"
  /\ cur.trade_id = "z50"
  /\ cur.count = 50
  /\ {r.trade_id : r \in prints} = {"z10", "z50"}
  /\ \E r \in prints : r.trade_id = "z10" /\ r.count = 10
  /\ Tagged(cur.flags, "Unusual size")

(* C19 (SpecHTTP): a call whose first host answers 4xx ends with that error,
   having asked no other host and with the pin where it was; and a call that
   asked a second host had a 5xx or a connect error, read timeout or network
   error from the first. *)
C19_ClientErrorStops ==
  /\ lastCall.first \in {"400", "404"}
       => /\ ~lastCall.ok
          /\ lastCall.err = lastCall.first
          /\ lastCall.tried = <<lastCall.pinned>>
          /\ host = lastCall.pinned
  /\ Len(lastCall.tried) >= 2
       => lastCall.first \in {"500", "503", "ConnectError", "ReadTimeout", "NetworkError"}

(* C19 witness: the pinned host answered 404 while the other host would have
   answered 200: the call raised, only the pinned host was asked. *)
C19_Witness ==
  /\ lastCall.first = "404"
  /\ lastCall.next # None
  /\ lastCall.second = "200"
  /\ ~lastCall.ok
  /\ lastCall.tried = <<lastCall.pinned>>

(* the positions of the hosts whose probe answers 200 *)
ProbedOk == {k \in 1..Len(hosts) : lastCall.probe[hosts[k]] = "200"}

(* C20 (SpecHTTP): a call that began with no host pinned pinned the first
   host of the list whose probe answered 200, or FALLBACK if none did, and
   sent its request to that host first; after any call a host is pinned. *)
C20_PickHost ==
  /\ lastCall.picked
       => /\ lastCall.pinned =
               IF ProbedOk = {} THEN FALLBACK
               ELSE hosts[CHOOSE k \in ProbedOk : \A j \in ProbedOk : k <= j]
          /\ Len(lastCall.tried) >= 1
          /\ lastCall.tried[1] = lastCall.pinned
  /\ lastCall # NoCall => host # None

(* C20 witness: no probe answered 200; FALLBACK was pinned and the request
   went to it. *)
C20_Witness ==
  /\ lastCall.picked
  /\ hosts = <<PRIMARY, FALLBACK>>
  /\ ProbedOk = {}
  /\ lastCall.pinned = FALLBACK
  /\ lastCall.tried[1] = FALLBACK
  /\ host # None

(* C21 (SpecIngest), as claimed: min_ts_supported goes from unknown to False
   only in a step whose probe request was rejected with a 400. *)
C21_OnlyA400Downgrades ==
  [][(min_ts_supported = None /\ min_ts_supported' = "False")
       => (lastReq'.kind = "probe" /\ lastReq'.err = "400")]_vars

(* C22 (SpecDetect), as claimed: the step that stores a trade's row stores it
   with the complete tag list of the trade's alert. *)
C22_StoredFlagsComplete ==
  [][(Detects /\ \A r \in prints : r.trade_id # cur'.trade_id)
       => \E r \in prints' : r.trade_id = cur'.trade_id /\ r.flags = cur'.flags]_vars

(* C23 (SpecParse), as claimed: parse_ts_to_ms takes an all-digit timestamp v as seconds (result
   v * 1000) exactly when v < 10_000_000_000, and as milliseconds (result v)
   when v >= 10_000_000_000, the value 10_000_000_000 itself included. *)
C23_SecondsBelowLimit ==
  parsed.called =>
    parsed.result = IF big_lt(parsed.arg, SecondsLimit)
                    THEN big_times_1000(parsed.arg)
                    ELSE parsed.arg

(* C24 (SpecHTTP), as claimed: the pinned host is unset or one of self.hosts,
   and every host a request was sent to is one of self.hosts. *)
C24_PinnedHostConfigured ==
  /\ host = None \/ host \in Range(hosts)
  /\ Range(lastCall.tried) \subseteq Range(hosts)

(* alerts are on for user u in table tbl *)
AlertsOn(tbl, u) == u \in DOMAIN tbl /\ tbl[u].alerts_on = 1

(* C25 (SpecChat), as claimed: a step that turns a user's alerts_on to 1 is
   the 'Alerts ON' handler for that user. *)
C25_AlertsOnlyViaOn ==
  [][\A u \in Users : (~AlertsOn(subs, u) /\ AlertsOn(subs', u)) => btn_on(u)]_vars

====
